---------------------------- MODULE Spec2Model ----------------------------
(***************************************************************************)
(* Model of the SEO scraping / analysis / content-generation server.       *)
(* Two revisions of server.js are modelled: src/index.js (the earlier,     *)
(* single-template revision, "index") and src/unnamed/part_000 (the        *)
(* multi-template revision, "part").                                       *)
(*                                                                         *)
(* A JavaScript string is a sequence of UTF-16 code units; each code unit  *)
(* is a one-element TLA+ string.  Three kinds of unit stand for something  *)
(* longer than an ASCII character: "<hi>" and "<lo>" are the two halves of *)
(* a surrogate pair, "<bt>" is the grave accent, and the lexemes of         *)
(* JsonLexemes each stand for the text of one complete JSON value (none of *)
(* them has whitespace at its ends, a grave accent, or a language tag).    *)
(***************************************************************************)
EXTENDS Integers, Sequences, FiniteSets, TLC

VARIABLES
    arg,      \* pure-function harness: the input drawn for the function
    ret,      \* pure-function harness: the results computed so far
    step,     \* pure-function harness: position of the harness
    rev,      \* which revision of server.js is running: "index" or "part"
    envKey,   \* process.env.OPENAI_API_KEY (Absent when unset)
    up,       \* the node process is alive (no uncaught exception)
    pc,       \* per request: position of its async handler
    body,     \* per request: endpoint and req.body
    resp,     \* per request: the response sent (NoResp before)
    sent,     \* per request: number of responses written
    log,      \* per request: the pipeline stages run, in order
    calls     \* per request: the collaborator calls issued, in order

pureVars == <<arg, ret, step>>
srvVars == <<rev, envKey, up, pc, body, resp, sent, log, calls>>
vars == <<arg, ret, step, rev, envKey, up, pc, body, resp, sent, log, calls>>

-----------------------------------------------------------------------------
(* Bounds of the model *)

\* longest cleaning input, counted in chunks of CleanChunks
MaxChunks == 4

\* elements of a scraped document
MaxElems == 3

\* elements of a scraped document with texts around the truncation point
MaxLongElems == 2

\* longest keyword list and improvement list given to the prompt builder
MaxListLen == 2

\* requests the server receives in one run
MaxRequests == 2

-----------------------------------------------------------------------------
(* JavaScript strings *)

Absent == "<absent>"

Min(a, b) == IF a < b THEN a ELSE b

\* \s of a JavaScript regular expression, and what String.prototype.trim strips
IsWs(c) == c \in {" ", "\n"}

\* the /i flag: case-insensitive comparison of one code unit
Lower(c) ==
    CASE c = "J" -> "j" [] c = "S" -> "s" [] c = "O" -> "o" [] c = "N" -> "n"
      [] c = "H" -> "h" [] c = "T" -> "t" [] c = "M" -> "m" [] c = "L" -> "l"
      [] OTHER -> c

RECURSIVE LeadWs(_, _)
\* number of whitespace units of s from position i on, before the first other unit
LeadWs(s, i) ==
    IF i > Len(s) \/ ~IsWs(s[i]) THEN 0 ELSE 1 + LeadWs(s, i + 1)

RECURSIVE TrailWs(_, _)
TrailWs(s, i) ==
    IF i < 1 \/ ~IsWs(s[i]) THEN 0 ELSE 1 + TrailWs(s, i - 1)

\* s.substring(n)
SubstringFrom(s, n) == SubSeq(s, Min(n, Len(s)) + 1, Len(s))

\* s.substring(0, n)
SubstringTo(s, n) == SubSeq(s, 1, Min(n, Len(s)))

\* s.trim()
Trim(s) ==
    LET a == LeadWs(s, 1)
    IN  IF a = Len(s) THEN <<>>
        ELSE SubSeq(s, a + 1, Len(s) - TrailWs(s, Len(s)))

\* s.startsWith(p)
StartsWith(s, p) == Len(s) >= Len(p) /\ SubSeq(s, 1, Len(p)) = p

\* s.endsWith(p)
EndsWith(s, p) == Len(s) >= Len(p) /\ SubSeq(s, Len(s) - Len(p) + 1, Len(s)) = p

\* s.includes(p)
Includes(s, p) == \E i \in 0..(Len(s) - Len(p)) : SubSeq(s, i + 1, i + Len(p)) = p

RECURSIVE RemoveFirst(_, _)
\* s.replace(p, "") for a string pattern p: the first occurrence only
RemoveFirst(s, p) ==
    IF Len(s) < Len(p) THEN s
    ELSE IF StartsWith(s, p) THEN SubstringFrom(s, Len(p))
    ELSE <<Head(s)>> \o RemoveFirst(Tail(s), p)

RECURSIVE RemoveAll(_, _)
\* s.replaceAll(p, "") for a string pattern p: every occurrence, left to right
RemoveAll(s, p) ==
    IF Len(s) < Len(p) THEN s
    ELSE IF StartsWith(s, p) THEN RemoveAll(SubstringFrom(s, Len(p)), p)
    ELSE <<Head(s)>> \o RemoveAll(Tail(s), p)

\* s.replace(/^\s*tag\s*/i, ""): leading whitespace, the tag in any case, and the
\* whitespace after it are removed when s starts that way
StripLeadingTag(s, tag) ==
    LET a == LeadWs(s, 1)
        word == SubSeq(s, a + 1, a + Len(tag))
    IN  IF Len(s) >= a + Len(tag)
           /\ [i \in 1..Len(tag) |-> Lower(word[i])] = tag
        THEN SubstringFrom(s, a + Len(tag) + LeadWs(s, a + Len(tag) + 1))
        ELSE s

RECURSIVE Flatten(_)
\* the concatenation of a list of strings
Flatten(ss) == IF ss = <<>> THEN <<>> ELSE Head(ss) \o Flatten(Tail(ss))

RECURSIVE JoinWith(_, _)
\* ts.join(sep)
JoinWith(ts, sep) ==
    IF ts = <<>> THEN <<>>
    ELSE IF Len(ts) = 1 THEN ts[1]
    ELSE ts[1] \o sep \o JoinWith(Tail(ts), sep)

\* one grave accent (U+0060); the fence marker is three of them
BT == "<bt>"
Fence == <<BT, BT, BT>>
JsonTag == <<"j", "s", "o", "n">>
HtmlTag == <<"h", "t", "m", "l">>

-----------------------------------------------------------------------------
(* Response cleaning *)

\* src/index.js: cleanJsonResponse
cleanJsonResponse(responseText) ==
    LET c0 == Trim(responseText)
        c1 == IF StartsWith(c0, Fence \o JsonTag) THEN SubstringFrom(c0, 7)
              ELSE IF StartsWith(c0, Fence) THEN SubstringFrom(c0, 3)
              ELSE c0
        c2 == IF EndsWith(c1, Fence) THEN SubstringTo(c1, Len(c1) - 3) ELSE c1
        c3 == StripLeadingTag(c2, JsonTag)
    IN  Trim(c3)

\* src/unnamed/part_000: cleanHtmlResponse
cleanHtmlResponse(responseText) ==
    LET c0 == Trim(responseText)
        c1 == IF StartsWith(c0, Fence \o HtmlTag) THEN RemoveFirst(c0, Fence \o HtmlTag)
              ELSE IF StartsWith(c0, Fence) THEN RemoveAll(c0, Fence)
              ELSE c0
        c2 == IF EndsWith(c1, Fence) THEN SubstringTo(c1, Len(c1) - 3) ELSE c1
        c3 == StripLeadingTag(c2, HtmlTag)
    IN  Trim(c3)

-----------------------------------------------------------------------------
(* Prompt builder (src/unnamed/part_000).  A prompt is the sequence of the      *)
(* pieces its template literal concatenates: the literal lines, one string     *)
(* each, and the interpolated values.  The two pictographs that open the first  *)
(* two lines of baseInstructions are left out of the strings.                  *)

\* list.join(", ") as pieces; an empty string contributes no piece
JoinComma(list) ==
    SelectSeq(JoinWith([i \in 1..Len(list) |-> <<list[i]>>], <<", ">>), LAMBDA t : t # "")

\* keywords.join(", ") || "none provided"
KeywordText(keywords) ==
    IF JoinComma(keywords) = <<>> THEN <<"none provided">> ELSE JoinComma(keywords)

\* improvements.length > 0 ? `Apply ...: ${improvements.join(", ")}.` : ""
ImprovementText(improvements) ==
    IF Len(improvements) > 0
    THEN <<"Apply the following enhancements to improve the quality of the content: ">>
           \o JoinComma(improvements) \o <<".">>
    ELSE <<>>

baseInstructions ==
    << "Output the response as raw HTML only. Do **not** include any <html>, <head>, or <body> tags. Wrap the entire content inside a single <div> element.",
       "Use Tailwind CSS utility classes for styling headings, paragraphs, lists, and other elements.",
       "Ensure the HTML structure is clean, semantic, and visually appealing using Tailwind conventions." >>

FaqTemplate(topic, keywords, improvements) ==
    << "You are an expert content writer specializing in FAQ creation and customer support content.",
       "Create a comprehensive FAQ section for the topic: \"", topic, "\".",
       "Requirements:",
       "- Generate 8-12 frequently asked questions with detailed, helpful answers",
       "- Each question should address common user concerns, problems, or inquiries",
       "- Arrange questions from most basic to more specific/advanced",
       "- Use a conversational, helpful tone that builds trust",
       "- Include practical examples, tips, or step-by-step guidance where appropriate",
       "- Structure each Q&A pair clearly with proper HTML semantics",
       "Incorporate these SEO keywords naturally: " >>
    \o KeywordText(keywords) \o ImprovementText(improvements) \o
    << "Format Guidelines:",
       "- Use <h2> for the main \"Frequently Asked Questions\" heading",
       "- Use <h3> for each individual question",
       "- Use <p> tags for answers with proper paragraph breaks",
       "- Include <ul> or <ol> lists where helpful for step-by-step instructions",
       "- Add emphasis with <strong> or <em> tags where appropriate" >>
    \o baseInstructions

BlogTemplate(topic, keywords, improvements) ==
    << "You are an expert blog writer and content strategist who creates engaging, informative blog posts.",
       "Write a comprehensive blog post about: \"", topic, "\".",
       "Requirements:",
       "- Create an engaging, SEO-optimized blog post of 800-1200 words",
       "- Include a compelling introduction that hooks the reader",
       "- Organize content with clear headings and subheadings (H2, H3)",
       "- Use storytelling elements, examples, and practical insights",
       "- Include actionable tips, strategies, or takeaways",
       "- Add a strong conclusion that summarizes key points",
       "- Write in a conversational, engaging tone that keeps readers interested",
       "- Include relevant statistics, facts, or expert insights where appropriate",
       "Incorporate these SEO keywords naturally: " >>
    \o KeywordText(keywords) \o ImprovementText(improvements) \o
    << "Structure Guidelines:",
       "- Use <h1> for the main title",
       "- Use <h2> for major sections",
       "- Use <h3> for subsections",
       "- Include <p> tags for paragraphs with proper spacing",
       "- Use <ul> or <ol> for lists and bullet points",
       "- Add <blockquote> for important quotes or statistics",
       "- Use <strong> and <em> for emphasis" >>
    \o baseInstructions

ProductTemplate(topic, keywords, improvements) ==
    << "You are an expert e-commerce copywriter specializing in product descriptions that convert visitors into customers.",
       "Create a compelling product description for: \"", topic, "\".",
       "Requirements:",
       "- Write a persuasive product description that highlights key features and benefits",
       "- Focus on how the product solves customer problems or improves their life",
       "- Include specific product details, specifications, and unique selling points",
       "- Use persuasive language that creates urgency and desire",
       "- Address potential customer objections or concerns",
       "- Include social proof elements if applicable",
       "- Write in a sales-focused, benefit-driven tone",
       "- Keep description scannable with bullet points and short paragraphs",
       "Incorporate these SEO keywords naturally: " >>
    \o KeywordText(keywords) \o ImprovementText(improvements) \o
    << "Format Guidelines:",
       "- Use <h2> for the product name/title",
       "- Use <h3> for sections like \"Key Features\", \"Benefits\", \"Specifications\"",
       "- Use <p> tags for descriptive paragraphs",
       "- Use <ul> for feature lists and bullet points",
       "- Use <strong> for highlighting important benefits or features",
       "- Include call-to-action language naturally within the content" >>
    \o baseInstructions

LandingTemplate(topic, keywords, improvements) ==
    << "You are an expert conversion copywriter specializing in high-converting landing page content.",
       "Create compelling landing page content for: \"", topic, "\".",
       "Requirements:",
       "- Write conversion-focused content that drives action",
       "- Include a powerful headline that captures attention immediately",
       "- Create a clear value proposition that explains benefits",
       "- Address visitor pain points and present solutions",
       "- Include social proof, testimonials, or credibility indicators",
       "- Build urgency and scarcity where appropriate",
       "- Include multiple compelling calls-to-action throughout",
       "- Use persuasive copywriting techniques and emotional triggers",
       "- Structure content to guide visitors toward conversion",
       "- Keep sections concise and scannable for quick reading",
       "Incorporate these SEO keywords naturally: " >>
    \o KeywordText(keywords) \o ImprovementText(improvements) \o
    << "Structure Guidelines:",
       "- Use <h1> for the main headline",
       "- Use <h2> for major sections like \"Benefits\", \"How It Works\", \"Why Choose Us\"",
       "- Use <h3> for subsections and feature highlights",
       "- Use <p> tags for benefit statements and descriptions",
       "- Use <ul> for benefit lists and feature highlights",
       "- Include <div> with appropriate classes for call-to-action sections",
       "- Use <strong> and <em> for emphasis on key benefits" >>
    \o baseInstructions

DefaultTemplate(topic, keywords, improvements) ==
    << "You are an expert content writer and SEO strategist.",
       "Write comprehensive content for the topic: \"", topic, "\".",
       "Incorporate the following SEO keywords naturally: " >>
    \o KeywordText(keywords) \o ImprovementText(improvements) \o
    << "Ensure the content is clear, engaging, informative, and appropriately structured.",
       "Use a tone and format that aligns with best SEO practices and user experience expectations." >>
    \o baseInstructions

\* a builder with the single fixed template of the earlier revision
generatePromptSingleTemplate(type, topic, keywords, improvements) ==
    DefaultTemplate(topic, keywords, improvements)

\* switch (type) { case "FAQ": ... default: ... }
generatePrompt(type, topic, keywords, improvements) ==
    CASE type = "FAQ" -> FaqTemplate(topic, keywords, improvements)
      [] type = "Blog Post" -> BlogTemplate(topic, keywords, improvements)
      [] type = "Product Description" -> ProductTemplate(topic, keywords, improvements)
      [] type = "Landing Page Content" -> LandingTemplate(topic, keywords, improvements)
      [] OTHER -> DefaultTemplate(topic, keywords, improvements)

-----------------------------------------------------------------------------
(* The state of the other part of the model while one part runs *)

Reqs == 1..MaxRequests

NoPayload == [kind |-> "none"]
NoResp == [status |-> 0, error |-> Absent, details |-> Absent, payload |-> NoPayload]
NoBody == [endpoint |-> "none"]

SrvIdle ==
    /\ rev = "part"
    /\ envKey = Absent
    /\ up = TRUE
    /\ pc = [r \in Reqs |-> "idle"]
    /\ body = [r \in Reqs |-> NoBody]
    /\ resp = [r \in Reqs |-> NoResp]
    /\ sent = [r \in Reqs |-> 0]
    /\ log = [r \in Reqs |-> <<>>]
    /\ calls = [r \in Reqs |-> <<>>]

-----------------------------------------------------------------------------
(* Text extraction of POST /api/scrape (the same code in both revisions) *)

\* the argument of substring(0, 10000)
MaxContentLen == 10000

\* the two UTF-16 code units of one character outside the basic plane
HI == "<hi>"
LO == "<lo>"

\* text.replace(/\s+/g, " "): every maximal run of whitespace becomes one space
CollapseWs(s) ==
    LET marked == [i \in 1..Len(s) |->
                     <<IF IsWs(s[i]) THEN " " ELSE s[i],
                       IsWs(s[i]) /\ i > 1 /\ IsWs(s[IF i > 1 THEN i - 1 ELSE 1])>>]
        kept == SelectSeq(marked, LAMBDA p : ~p[2])
    IN  [i \in 1..Len(kept) |-> kept[i][1]]

\* $(element).text().trim().replace(/\s+/g, " ")
ElementText(e) == CollapseWs(Trim(e.text))

NonEmpty(ts) == SelectSeq(ts, LAMBDA t : t # <<>>)

\* $(tag).each(...): the non-empty texts of the elements of one tag, in document order
TagTexts(elems, tag) ==
    LET es == SelectSeq(elems, LAMBDA e : e.tag = tag)
    IN  NonEmpty([i \in 1..Len(es) |-> ElementText(es[i])])

\* ["main", "section", "article"].forEach(...)
SemanticTexts(elems) ==
    TagTexts(elems, "main") \o TagTexts(elems, "section") \o TagTexts(elems, "article")

ClassContent == <<"c", "o", "n", "t", "e", "n", "t">>
ClassMain == <<"m", "a", "i", "n">>
ClassText == <<"t", "e", "x", "t">>

\* className.includes("content") || className.includes("main") || className.includes("text")
ClassMatches(className) ==
    \/ Includes(className, ClassContent)
    \/ Includes(className, ClassMain)
    \/ Includes(className, ClassText)

\* $("div").each(...): the non-empty texts of the div elements whose class matches
DivTexts(elems) ==
    LET es == SelectSeq(elems, LAMBDA e : e.tag = "div" /\ ClassMatches(e.class))
    IN  NonEmpty([i \in 1..Len(es) |-> ElementText(es[i])])

\* $("body").text(): the text of every element of the (flat) document, in order
BodyText(elems) == Flatten([i \in 1..Len(elems) |-> elems[i].text])

\* a collection that adds the body text whether or not anything was collected
CollectTextsAlwaysBody(elems) ==
    LET texts == SemanticTexts(elems) \o DivTexts(elems)
        bodyText == CollapseWs(Trim(BodyText(elems)))
    IN  IF bodyText # <<>> THEN Append(texts, bodyText) ELSE texts

\* the texts array after the three collection steps
CollectTexts(elems) ==
    LET texts == SemanticTexts(elems) \o DivTexts(elems)
        bodyText == CollapseWs(Trim(BodyText(elems)))
    IN  IF Len(texts) = 0
        THEN (IF bodyText # <<>> THEN <<bodyText>> ELSE <<>>)
        ELSE texts

\* a de-duplication that keeps the last occurrence of each value instead of the first
UniqueTextsKeepLast(texts) ==
    LET marked == [i \in 1..Len(texts) |->
                     <<texts[i], \E j \in (i + 1)..Len(texts) : texts[j] = texts[i]>>]
        kept == SelectSeq(marked, LAMBDA p : ~p[2])
    IN  [i \in 1..Len(kept) |-> kept[i][1]]

\* [...new Set(texts)]: a Set iterates in insertion order, each value once
UniqueTexts(texts) ==
    LET marked == [i \in 1..Len(texts) |->
                     <<texts[i], \E j \in 1..(i - 1) : texts[j] = texts[i]>>]
        kept == SelectSeq(marked, LAMBDA p : ~p[2])
    IN  [i \in 1..Len(kept) |-> kept[i][1]]

\* a truncation that is off by one
TruncateOffByOne(joined) == SubstringTo(joined, MaxContentLen + 1)

\* uniqueTexts.join("\n").substring(0, 10000)
Truncate(joined) == SubstringTo(joined, MaxContentLen)

\* fullText.split(/\s+/).length: one more than the number of whitespace runs
WordCount(s) ==
    1 + Cardinality({ i \in 1..Len(s) :
                        IsWs(s[i]) /\ (i = 1 \/ ~IsWs(s[IF i > 1 THEN i - 1 ELSE 1])) })

\* fullText.split(".").length: one more than the number of full stops
SentenceCount(s) == 1 + Cardinality({ i \in 1..Len(s) : s[i] = "." })

\* the body of res.json({...}) of the scrape handler
ScrapePayload(fullText) ==
    [ content |-> fullText,
      wordCount |-> WordCount(fullText),
      characterCount |-> Len(fullText),
      sentenceCount |-> SentenceCount(fullText) ]

\* from cheerio.load(html) to the payload, with the intermediate arrays kept
ScrapeExtract(elems) ==
    LET texts == CollectTexts(elems)
        uniqueTexts == UniqueTexts(texts)
        joined == JoinWith(uniqueTexts, <<"\n">>)
    IN  [ texts |-> texts,
          uniqueTexts |-> uniqueTexts,
          joined |-> joined,
          payload |-> ScrapePayload(Truncate(joined)) ]

-----------------------------------------------------------------------------
(* JSON.parse.  The text of a JSON value is one lexeme; JSON.parse accepts a   *)
(* value with whitespace around it and nothing else.                           *)

None == [def |-> FALSE, val |-> <<>>]
Some(list) == [def |-> TRUE, val |-> list]

\* what the handlers read of a parsed value: whether .SEOAnalysis and
\* .SEOAnalysis.NewKeywordTargets are objects, and the three lists
JsonValue(lexeme) ==
    CASE lexeme = "{full}" ->
           [seo |-> TRUE, targets |-> TRUE, keywords |-> Some(<<"mesh wifi", "wifi 6">>),
            improvements |-> Some(<<"add faq">>), topics |-> Some(<<"router setup">>)]
      [] lexeme = "{no-lists}" ->
           [seo |-> TRUE, targets |-> TRUE, keywords |-> None,
            improvements |-> None, topics |-> None]
      [] lexeme = "{no-improvements}" ->
           [seo |-> TRUE, targets |-> TRUE, keywords |-> Some(<<"mesh wifi", "wifi 6">>),
            improvements |-> None, topics |-> Some(<<"router setup">>)]
      [] lexeme = "{no-targets}" ->
           [seo |-> TRUE, targets |-> FALSE, keywords |-> None,
            improvements |-> Some(<<"add faq">>), topics |-> None]
      [] OTHER ->
           [seo |-> FALSE, targets |-> FALSE, keywords |-> None,
            improvements |-> None, topics |-> None]

JsonLexemes == { "{full}", "{no-lists}", "{no-improvements}", "{no-targets}", "{}" }

\* JSON.parse(text): ok is FALSE when it throws a SyntaxError
JsonParse(text) ==
    LET t == Trim(text)
    IN  IF Len(t) = 1 /\ t[1] \in JsonLexemes
        THEN [ok |-> TRUE, value |-> JsonValue(t[1])]
        ELSE [ok |-> FALSE, value |-> JsonValue("{}")]

SyntaxErrorMessage == "Unexpected token in JSON at position 0"
TypeErrorMessage == "Cannot read properties of undefined"

-----------------------------------------------------------------------------
(* Request handlers.  A handler runs from the request to its first await, and  *)
(* from the completion of an await to the next one or to the response, without *)
(* interruption; each such segment is an operator giving what the segment      *)
(* does: the response it writes or the call it awaits, and the stages it ran.  *)
(* maxTokens and temperature are passed through to the model call unread and   *)
(* are left out of the bodies.                                                 *)

NoCall == [client |-> "none"]

\* !v for a string field of req.body
Falsy(v) == v = Absent \/ v = ""

\* a missing seoData, and !seoData
NoString == <<Absent>>
FalsyText(t) == t = NoString \/ t = <<>>

Respond(status, error, details, payload, stages) ==
    [ kind |-> "respond",
      resp |-> [status |-> status, error |-> error, details |-> details, payload |-> payload],
      call |-> NoCall,
      stages |-> stages ]

Await(call, stages) ==
    [ kind |-> "await", resp |-> NoResp, call |-> call, stages |-> stages ]

\* axios.get(url)
FetchCall(url) ==
    [ client |-> "fetch", target |-> url, prompt |-> <<>>,
      outcome |-> "pending", text |-> <<>>, page |-> <<>>, message |-> Absent ]

\* new OpenAI({ apiKey }).chat.completions.create({ messages: [{ content: prompt }] })
ModelCall(apiKey, prompt) ==
    [ client |-> "model", target |-> apiKey, prompt |-> prompt,
      outcome |-> "pending", text |-> <<>>, page |-> <<>>, message |-> Absent ]

\* POST /api/scrape, up to await axios.get(url)
ScrapeOnRequest(b) ==
    IF Falsy(b.url)
    THEN Respond(400, "URL is required", Absent, NoPayload, <<"validate", "respond">>)
    ELSE Await(FetchCall(b.url), <<"validate", "fetch">>)

\* a handler that swallows the fetch error and answers with an empty extraction
ScrapeOnFetchedSwallow(o) ==
    Respond(200, Absent, Absent,
            [kind |-> "scrape", data |-> ScrapeExtract(o.page).payload],
            <<"extract", "respond">>)

\* POST /api/scrape, from the completion of axios.get(url)
ScrapeOnFetched(o) ==
    IF o.outcome = "ok"
    THEN Respond(200, Absent, Absent,
                 [kind |-> "scrape", data |-> ScrapeExtract(o.page).payload],
                 <<"extract", "respond">>)
    ELSE Respond(500, "Failed to scrape website", o.message, NoPayload, <<"respond">>)

\* the prompt of POST /api/analyze-seo
AnalyzePrompt(content) ==
    << "You are an SEO expert. Analyze the following content about Smart WiFi for SEO performance. Assess:",
       "1. Does the content use relevant keywords about smart wifi and related topics? Is it likely to rank well for high-volume keywords?",
       "2. What improvements can be made to increase SEO performance?",
       "3. Suggest new keywords (with high search volume) that should be targeted, and recommend content topics or sections to add.",
       "Content:", content,
       "Provide the output in JSON format with the following structure:",
       "{ \"SEOAnalysis\": { \"CurrentKeywords\": [...], \"SEOScore\": 75, \"Improvements\": [...], \"NewKeywordTargets\": { \"SuggestedKeywords\": [...], \"ContentTopicsToAdd\": [...] } } }" >>

\* a credential kept in one module-level client: a request without apiKey runs
\* with the key of whichever request configured the client before it
AnalyzeApiKeyShared(b, env) ==
    LET keyed == { q \in Reqs : calls[q] # <<>> /\ calls[q][1].client = "model" }
    IN  IF b.apiKey # Absent THEN b.apiKey
        ELSE IF keyed # {} THEN calls[CHOOSE q \in keyed : TRUE][1].target
        ELSE env

\* const { content, apiKey = process.env.OPENAI_API_KEY } = req.body
AnalyzeApiKey(b, env) == IF b.apiKey = Absent THEN env ELSE b.apiKey

\* POST /api/analyze-seo, up to await openai.chat.completions.create(...)
AnalyzeOnRequest(b, env) ==
    IF Falsy(b.content) \/ Falsy(AnalyzeApiKey(b, env))
    THEN Respond(400, "Content and API key are required", Absent, NoPayload,
                 <<"validate", "respond">>)
    ELSE Await(ModelCall(AnalyzeApiKey(b, env), AnalyzePrompt(b.content)),
               <<"validate", "prompt", "model">>)

\* POST /api/analyze-seo, from the completion of the model call
AnalyzeOnCompleted(o) ==
    IF o.outcome = "ok"
    THEN Respond(200, Absent, Absent,
                 [kind |-> "analysis", analysis |-> o.text, rawAnalysis |-> o.text],
                 <<"respond">>)
    ELSE Respond(500, "Failed to analyze SEO", o.message, NoPayload, <<"respond">>)

\* a parse input that is cleaned in both revisions
SeoParseInputAlwaysCleaned(revision, seoData) == cleanJsonResponse(seoData)

\* the argument of JSON.parse: cleanJsonResponse(seoData) in index.js, seoData in part_000
SeoParseInput(revision, seoData) ==
    IF revision = "index" THEN cleanJsonResponse(seoData) ELSE seoData

\* the prompt of POST /api/generate-content in index.js
IndexPrompt(type, topic, keywords, topics) ==
    << "You are an expert content writer and SEO strategist.",
       "Write a comprehensive ", type, " for the topic: \"", topic, "\".",
       "Incorporate the following SEO keywords naturally: " >>
    \o JoinComma(keywords) \o
    << ".", "Follow this outline:" >>
    \o JoinWith([i \in 1..Len(topics) |-> <<"- ", topics[i]>>], <<"\n">>) \o
    << "Ensure the content is clear, informative, and incorporates the suggested keywords where relevant.",
       "Structure your output appropriately for a ", type, "." >>

\* index.js: from seoParsed to prompt; ok is FALSE when a TypeError is thrown
BuildPromptIndex(b, v) ==
    IF ~v.seo \/ ~v.targets \/ ~v.topics.def \/ ~v.keywords.def
    THEN [ok |-> FALSE, prompt |-> <<>>]
    ELSE [ok |-> TRUE,
          prompt |-> IndexPrompt(b.generationType, b.contentTopic, v.keywords.val, v.topics.val)]

\* selectedKeywords = [] and selectedImprovements = [] of the destructuring
Selected(opt) == IF opt.def THEN opt.val ELSE <<>>

\* a handler that takes the caller's lists only when both are given
BuildPromptPartCoupled(b, v) ==
    LET use == Len(Selected(b.selectedKeywords)) > 0 /\ Len(Selected(b.selectedImprovements)) > 0
        kw == IF use THEN Some(Selected(b.selectedKeywords)) ELSE v.keywords
        imp == IF use THEN Some(Selected(b.selectedImprovements)) ELSE v.improvements
    IN  IF (~use /\ (~v.seo \/ ~v.targets)) \/ ~kw.def \/ ~imp.def
        THEN [ok |-> FALSE, prompt |-> <<>>]
        ELSE [ok |-> TRUE,
              prompt |-> generatePrompt(b.generationType, b.contentTopic, kw.val, imp.val)]

\* part_000: from seoParsed to prompt; ok is FALSE when a TypeError is thrown
BuildPromptPart(b, v) ==
    LET useKw == Len(Selected(b.selectedKeywords)) > 0
        useImp == Len(Selected(b.selectedImprovements)) > 0
        kw == IF useKw THEN Some(Selected(b.selectedKeywords)) ELSE v.keywords
        imp == IF useImp THEN Some(Selected(b.selectedImprovements)) ELSE v.improvements
    IN  IF (~useKw /\ (~v.seo \/ ~v.targets)) \/ (~useImp /\ ~v.seo)
           \/ ~kw.def \/ ~imp.def
        THEN [ok |-> FALSE, prompt |-> <<>>]
        ELSE [ok |-> TRUE,
              prompt |-> generatePrompt(b.generationType, b.contentTopic, kw.val, imp.val)]

BuildPrompt(revision, b, v) ==
    IF revision = "index" THEN BuildPromptIndex(b, v) ELSE BuildPromptPart(b, v)

\* a validation that forgets the API key
GenerateInvalidNoKeyCheck(b) ==
    FalsyText(b.seoData) \/ Falsy(b.contentTopic) \/ Falsy(b.generationType)

\* the validation of POST /api/generate-content
GenerateInvalid(b) ==
    FalsyText(b.seoData) \/ Falsy(b.contentTopic) \/ Falsy(b.generationType) \/ Falsy(b.apiKey)

\* POST /api/generate-content, up to await openai.chat.completions.create(...)
GenerateOnRequest(revision, b) ==
    IF GenerateInvalid(b)
    THEN Respond(400, "SEO data, content topic, generation type, and API key are required",
                 Absent, NoPayload, <<"validate", "respond">>)
    ELSE LET parsed == JsonParse(SeoParseInput(revision, b.seoData))
             built == BuildPrompt(revision, b, parsed.value)
         IN  IF ~parsed.ok
             THEN Respond(500, "Failed to generate content", SyntaxErrorMessage, NoPayload,
                          <<"validate", "parse", "respond">>)
             ELSE IF ~built.ok
             THEN Respond(500, "Failed to generate content", TypeErrorMessage, NoPayload,
                          <<"validate", "parse", "prompt", "respond">>)
             ELSE Await(ModelCall(b.apiKey, built.prompt),
                        <<"validate", "parse", "prompt", "model">>)

\* a handler that calls the model a second time when the first call failed
GenerateOnCompletedRetry(revision, o) ==
    IF o.outcome # "ok"
    THEN Await(ModelCall(Absent, <<>>), <<"model">>)
    ELSE IF revision = "index"
    THEN Respond(200, Absent, Absent, [kind |-> "content", content |-> o.text], <<"respond">>)
    ELSE Respond(200, Absent, Absent,
                 [kind |-> "content", content |-> cleanHtmlResponse(o.text)],
                 <<"normalize", "respond">>)

\* POST /api/generate-content, from the completion of the model call
GenerateOnCompleted(revision, o) ==
    IF o.outcome # "ok"
    THEN Respond(500, "Failed to generate content", o.message, NoPayload, <<"respond">>)
    ELSE IF revision = "index"
    THEN Respond(200, Absent, Absent, [kind |-> "content", content |-> o.text], <<"respond">>)
    ELSE Respond(200, Absent, Absent,
                 [kind |-> "content", content |-> cleanHtmlResponse(o.text)],
                 <<"normalize", "respond">>)

-----------------------------------------------------------------------------
(* SpecClean: the two cleaning functions on bounded model outputs *)

CleanChunks ==
    { Fence, <<BT>>, JsonTag, HtmlTag, <<"J", "S", "O", "N">>, <<"H", "t", "m", "l">>,
      <<" ">>, <<"x">> }

CleanInputs == { Flatten(cs) : cs \in UNION { [1..n -> CleanChunks] : n \in 0..MaxChunks } }

InitClean ==
    /\ arg \in CleanInputs
    /\ ret = <<>>
    /\ step = "clean0"
    /\ SrvIdle

ApplyCleanJson ==
    /\ step = "clean0"
    /\ ret' = <<cleanJsonResponse(arg)>>
    /\ step' = "json1"
    /\ UNCHANGED <<arg, srvVars>>

ReapplyCleanJson ==
    /\ step = "json1"
    /\ ret' = Append(ret, cleanJsonResponse(ret[1]))
    /\ step' = "json2"
    /\ UNCHANGED <<arg, srvVars>>

ApplyCleanHtml ==
    /\ step = "clean0"
    /\ ret' = <<cleanHtmlResponse(arg)>>
    /\ step' = "html1"
    /\ UNCHANGED <<arg, srvVars>>

ReapplyCleanHtml ==
    /\ step = "html1"
    /\ ret' = Append(ret, cleanHtmlResponse(ret[1]))
    /\ step' = "html2"
    /\ UNCHANGED <<arg, srvVars>>

NextClean == ApplyCleanJson \/ ReapplyCleanJson \/ ApplyCleanHtml \/ ReapplyCleanHtml

SpecClean == InitClean /\ [][NextClean]_vars

\* C4: response cleaning is idempotent: cleaning the cleaned text a second time
\* returns the cleaned text unchanged, for cleanJsonResponse and for cleanHtmlResponse.
C4_CleanIdempotent ==
    step \in {"json2", "html2"} => ret[2] = ret[1]

\* the text enclosed by an opening fence (with the function's own language tag when
\* it follows the fence at once) and the closing fence
Enclosed(x, tag) ==
    LET open == IF StartsWith(x, Fence \o tag) THEN Len(Fence) + Len(tag) ELSE Len(Fence)
    IN  SubSeq(x, open + 1, Len(x) - Len(Fence))

IsFenced(x, tag) ==
    LET open == IF StartsWith(x, Fence \o tag) THEN Len(Fence) + Len(tag) ELSE Len(Fence)
    IN  StartsWith(x, Fence) /\ EndsWith(x, Fence) /\ Len(x) >= open + Len(Fence)

\* C5: for a model output that begins with a fence marker (bare or with the language
\* tag) and ends with the closing marker, cleaning returns exactly the enclosed text,
\* trimmed, with nothing else removed or changed.
C5_CleanReturnsEnclosed ==
    /\ (step = "json1" /\ IsFenced(arg, JsonTag)) => ret[1] = Trim(Enclosed(arg, JsonTag))
    /\ (step = "html1" /\ IsFenced(arg, HtmlTag)) => ret[1] = Trim(Enclosed(arg, HtmlTag))

-----------------------------------------------------------------------------
(* SpecExtract, SpecTruncate: the extractor on bounded documents *)

ExtractTexts == { <<" ">>, <<" ", "a", "\n">>, <<"b", " ", "\n", "c">> }

ExtractClasses ==
    { <<>>, ClassContent, <<"x">> \o ClassMain, ClassText \o <<"x">>, <<"n", "a", "v">> }

ExtractElems ==
    [tag : {"main", "section", "article"}, class : {<<>>}, text : ExtractTexts]
      \cup [tag : {"div"}, class : ExtractClasses, text : ExtractTexts]

Filler(n) == [i \in 1..n |-> "a"]

\* texts whose length is around the truncation point
LongTexts ==
    { Filler(n) \o tail :
        n \in {MaxContentLen \div 2 - 1, MaxContentLen - 1, MaxContentLen},
        tail \in { <<"a">>, <<HI, LO>>, <<".", HI, LO, " ", "b">> } }

LongElems == [tag : {"main"}, class : {<<>>}, text : LongTexts]

InitExtract ==
    /\ \E n \in 0..MaxElems : arg \in [1..n -> ExtractElems]
    /\ ret = <<>>
    /\ step = "page"
    /\ SrvIdle

InitTruncate ==
    /\ \E n \in 0..MaxLongElems : arg \in [1..n -> LongElems]
    /\ ret = <<>>
    /\ step = "page"
    /\ SrvIdle

ApplyExtract ==
    /\ step = "page"
    /\ ret' = ScrapeExtract(arg)
    /\ step' = "extracted"
    /\ UNCHANGED <<arg, srvVars>>

NextExtract == ApplyExtract

SpecExtract == InitExtract /\ [][NextExtract]_vars

SpecTruncate == InitTruncate /\ [][NextExtract]_vars

\* the position in the collection order of an element: main, section, article, div
TagRank(e) ==
    CASE e.tag = "main" -> 1 [] e.tag = "section" -> 2 [] e.tag = "article" -> 3
      [] OTHER -> 4

\* the elements whose text is collected, as indices into the document
CollectedIdx(elems) ==
    { i \in 1..Len(elems) :
        /\ elems[i].tag # "div" \/ ClassMatches(elems[i].class)
        /\ ElementText(elems[i]) # <<>> }

\* the collected texts, ordered by (rank of the tag, document position)
TextsByRank(elems) ==
    LET C == CollectedIdx(elems)
        Key(i) == TagRank(elems[i]) * (Len(elems) + 1) + i
        At(k) == CHOOSE i \in C : Cardinality({ j \in C : Key(j) < Key(i) }) = k - 1
    IN  [k \in 1..Cardinality(C) |-> ElementText(elems[At(k)])]

FirstIndex(ts, t) == CHOOSE i \in 1..Len(ts) : ts[i] = t /\ \A j \in 1..(i - 1) : ts[j] # t

\* C7: the list joined into the result has no repeated entry, holds every distinct
\* collected string, and is ordered by first occurrence in the collection order
\* (main, then section, then article elements, then matching div elements).
C7_DedupKeepsFirstOccurrenceOrder ==
    step = "extracted" =>
        LET ts == ret.texts
            us == ret.uniqueTexts
        IN  /\ \A i, j \in 1..Len(us) : i # j => us[i] # us[j]
            /\ { us[i] : i \in 1..Len(us) } = { ts[i] : i \in 1..Len(ts) }
            /\ \A i, j \in 1..Len(us) :
                   i < j => FirstIndex(ts, us[i]) < FirstIndex(ts, us[j])
            /\ CollectedIdx(arg) # {} => ts = TextsByRank(arg)

\* a string occurs twice among the collected texts with another one between
C7_Witness ==
    /\ step = "extracted"
    /\ Len(ret.texts) = 3
    /\ ret.texts[1] = ret.texts[3]
    /\ ret.texts[1] # ret.texts[2]
    /\ Len(ret.uniqueTexts) = 2

\* C8: the returned content has at most 10,000 characters, is a prefix of the
\* newline-joined deduplicated strings, and characterCount is its length.
C8_ContentBoundedPrefix ==
    step = "extracted" =>
        LET content == ret.payload.content
            joined == JoinWith(ret.uniqueTexts, <<"\n">>)
        IN  /\ Len(content) <= 10000
            /\ Len(content) <= Len(joined)
            /\ \A i \in 1..Len(content) : content[i] = joined[i]
            /\ ret.payload.characterCount = Len(content)

\* the joined text is longer than the maximum and was cut to it
C8_Witness ==
    /\ step = "extracted"
    /\ Len(ret.uniqueTexts) = 2
    /\ Len(ret.joined) > 10000
    /\ Len(ret.payload.content) = 10000

\* C9: truncation never splits a surrogate pair: when a pair straddles position
\* 10,000 of the joined text, the content does not end with its first half.
C9_NoSplitSurrogate ==
    (/\ step = "extracted"
     /\ Len(ret.joined) > 10000
     /\ ret.joined[10000] = HI
     /\ ret.joined[10001] = LO)
        => ret.payload.content[Len(ret.payload.content)] # HI

-----------------------------------------------------------------------------
(* SpecPrompt: the prompt builder on bounded arguments *)

PromptTypes ==
    { "FAQ", "Blog Post", "Product Description", "Landing Page Content",
      "faq", "Blog", "default", "Tweet" }

PromptWords == { "", "wifi", "fiber" }

PromptLists == UNION { [1..n -> PromptWords] : n \in 0..MaxListLen }

InitPrompt ==
    /\ arg \in [type : PromptTypes, topic : {"Smart WiFi"},
                keywords : PromptLists, improvements : PromptLists]
    /\ ret = <<>>
    /\ step = "args"
    /\ SrvIdle

ApplyPrompt ==
    /\ step = "args"
    /\ ret' = generatePrompt(arg.type, arg.topic, arg.keywords, arg.improvements)
    /\ step' = "prompted"
    /\ UNCHANGED <<arg, srvVars>>

NextPrompt == ApplyPrompt

SpecPrompt == InitPrompt /\ [][NextPrompt]_vars

Has(prompt, piece) == \E i \in 1..Len(prompt) : prompt[i] = piece

\* C6: the FAQ, Blog Post, Product Description and Landing Page Content templates
\* are selected exactly for those generationType values, the FAQ prompt asks for
\* 8-12 questions with answers, and every other value gets the default template,
\* for any keyword list and improvement list.
C6_TemplateSelection ==
    step = "prompted" =>
        /\ Len(ret) > 0
        /\ arg.type = "FAQ" <=>
             Has(ret, "You are an expert content writer specializing in FAQ creation and customer support content.")
        /\ arg.type = "FAQ" =>
             Has(ret, "- Generate 8-12 frequently asked questions with detailed, helpful answers")
        /\ arg.type = "Blog Post" <=>
             Has(ret, "You are an expert blog writer and content strategist who creates engaging, informative blog posts.")
        /\ arg.type = "Product Description" <=>
             Has(ret, "You are an expert e-commerce copywriter specializing in product descriptions that convert visitors into customers.")
        /\ arg.type = "Landing Page Content" <=>
             Has(ret, "You are an expert conversion copywriter specializing in high-converting landing page content.")
        /\ arg.type \notin {"FAQ", "Blog Post", "Product Description", "Landing Page Content"} <=>
             Has(ret, "You are an expert content writer and SEO strategist.")

\* an unrecognised generationType got the default template, with both lists empty
C6_Witness ==
    /\ step = "prompted"
    /\ arg.type = "Tweet"
    /\ arg.keywords = <<>>
    /\ arg.improvements = <<>>
    /\ Has(ret, "none provided")
    /\ Has(ret, "Write comprehensive content for the topic: \"")

-----------------------------------------------------------------------------
(* Spec: the server with MaxRequests requests in flight.  Requests are        *)
(* numbered in the order they arrive.                                          *)

PureIdle ==
    /\ arg = <<>>
    /\ ret = <<>>
    /\ step = "server"

Init ==
    /\ PureIdle
    /\ rev \in {"index", "part"}
    /\ envKey \in {Absent, "sk-env"}
    /\ up = TRUE
    /\ pc = [r \in Reqs |-> "idle"]
    /\ body = [r \in Reqs |-> NoBody]
    /\ resp = [r \in Reqs |-> NoResp]
    /\ sent = [r \in Reqs |-> 0]
    /\ log = [r \in Reqs |-> <<>>]
    /\ calls = [r \in Reqs |-> <<>>]

FullDoc == <<"{full}">>
FencedFullDoc == Fence \o JsonTag \o <<"\n", "{full}", "\n">> \o Fence

ScrapeBodies == [endpoint : {"scrape"}, url : {Absent, "", "http://site.example/"}]

AnalyzeBodies ==
    [endpoint : {"analyze"}, content : {Absent, "page text"}, apiKey : {Absent, "", "sk-req"}]

GenerateBodies ==
    { b \in [endpoint : {"generate"},
             seoData : {NoString, FullDoc, FencedFullDoc, <<"x">>, <<"{}">>},
             contentTopic : {Absent, "Smart WiFi"},
             generationType : {Absent, "FAQ"},
             apiKey : {Absent, "sk-req"},
             selectedKeywords : {None},
             selectedImprovements : {None}] :
        \/ b.seoData \in {NoString, FullDoc}
        \/ (b.contentTopic # Absent /\ b.generationType # Absent /\ b.apiKey # Absent) }

SrvPages ==
    { <<>>,
      << [tag |-> "div", class |-> ClassContent, text |-> <<"b", " ", "c">>],
         [tag |-> "main", class |-> <<>>, text |-> <<" ", "a", ".", "\n">>],
         [tag |-> "section", class |-> <<>>, text |-> <<"a", ".">>] >> }

Outcome(kind, message, page, text) ==
    [outcome |-> kind, message |-> message, page |-> page, text |-> text]

\* what axios.get can come back with
FetchOutcomes ==
    { Outcome("error", "getaddrinfo ENOTFOUND site.example", <<>>, <<>>) }
      \cup { Outcome("ok", Absent, p, <<>>) : p \in SrvPages }

\* what the model call can come back with
AnalyzeOutcomes ==
    { Outcome("error", "401 Incorrect API key provided", <<>>, <<>>) }
      \cup { Outcome("ok", Absent, <<>>, t) : t \in {FullDoc, <<"x">>} }

GenerateOutcomes ==
    { Outcome("error", "401 Incorrect API key provided", <<>>, <<>>) }
      \cup { Outcome("ok", Absent, <<>>, t) :
               t \in {<<"<", "p", ">">>, Fence \o HtmlTag \o <<"\n", "<", "p", ">", "\n">> \o Fence} }

\* the last call of request r, completed with outcome o
Completed(r, o) ==
    [calls[r] EXCEPT ![Len(calls[r])] =
        [@ EXCEPT !.outcome = o.outcome, !.message = o.message,
                  !.page = o.page, !.text = o.text]]

\* the effect of one handler segment of request r
Apply(r, res, cs) ==
    /\ log' = [log EXCEPT ![r] = @ \o res.stages]
    /\ IF res.kind = "respond"
       THEN /\ resp' = [resp EXCEPT ![r] = res.resp]
            /\ sent' = [sent EXCEPT ![r] = @ + 1]
            /\ pc' = [pc EXCEPT ![r] = "done"]
            /\ calls' = [calls EXCEPT ![r] = cs]
            /\ up' = up
       ELSE IF res.kind = "await"
       THEN /\ pc' = [pc EXCEPT ![r] =
                        IF res.call.client = "fetch" THEN "awaitFetch" ELSE "awaitModel"]
            /\ calls' = [calls EXCEPT ![r] = Append(cs, res.call)]
            /\ UNCHANGED <<resp, sent, up>>
       ELSE \* an exception no handler catches ends the process
            /\ up' = FALSE
            /\ pc' = [pc EXCEPT ![r] = "crashed"]
            /\ calls' = [calls EXCEPT ![r] = cs]
            /\ UNCHANGED <<resp, sent>>

Arrives(r) ==
    /\ up
    /\ pc[r] = "idle"
    /\ \A q \in Reqs : q < r => pc[q] # "idle"

ScrapeRequest(r) ==
    /\ Arrives(r)
    /\ \E b \in ScrapeBodies :
         /\ body' = [body EXCEPT ![r] = b]
         /\ Apply(r, ScrapeOnRequest(b), calls[r])
    /\ UNCHANGED <<pureVars, rev, envKey>>

ScrapeFetched(r) ==
    /\ up
    /\ pc[r] = "awaitFetch"
    /\ \E o \in FetchOutcomes : Apply(r, ScrapeOnFetched(o), Completed(r, o))
    /\ UNCHANGED <<pureVars, rev, envKey, body>>

AnalyzeRequest(r) ==
    /\ Arrives(r)
    /\ \E b \in AnalyzeBodies :
         /\ body' = [body EXCEPT ![r] = b]
         /\ Apply(r, AnalyzeOnRequest(b, envKey), calls[r])
    /\ UNCHANGED <<pureVars, rev, envKey>>

AnalyzeCompleted(r) ==
    /\ up
    /\ pc[r] = "awaitModel"
    /\ body[r].endpoint = "analyze"
    /\ \E o \in AnalyzeOutcomes : Apply(r, AnalyzeOnCompleted(o), Completed(r, o))
    /\ UNCHANGED <<pureVars, rev, envKey, body>>

GenerateRequest(r) ==
    /\ Arrives(r)
    /\ \E b \in GenerateBodies :
         /\ body' = [body EXCEPT ![r] = b]
         /\ Apply(r, GenerateOnRequest(rev, b), calls[r])
    /\ UNCHANGED <<pureVars, rev, envKey>>

GenerateCompleted(r) ==
    /\ up
    /\ pc[r] = "awaitModel"
    /\ body[r].endpoint = "generate"
    /\ \E o \in GenerateOutcomes : Apply(r, GenerateOnCompleted(rev, o), Completed(r, o))
    /\ UNCHANGED <<pureVars, rev, envKey, body>>

Next ==
    \E r \in Reqs :
        \/ ScrapeRequest(r)
        \/ ScrapeFetched(r)
        \/ AnalyzeRequest(r)
        \/ AnalyzeCompleted(r)
        \/ GenerateRequest(r)
        \/ GenerateCompleted(r)

Spec == Init /\ [][Next]_vars

-----------------------------------------------------------------------------
(* SpecGenerate: one generate-content request that passes validation, with    *)
(* the documents a seoData string can parse to and the caller's optional      *)
(* selectedKeywords and selectedImprovements.                                  *)

SelectedKeywordLists == { None, Some(<<>>), Some(<<"smart home">>) }
SelectedImprovementLists == { None, Some(<<>>), Some(<<"shorter title">>) }

SelectBodies ==
    [endpoint : {"generate"},
     seoData : { <<l>> : l \in JsonLexemes },
     contentTopic : {"Smart WiFi"},
     generationType : {"FAQ", "Blog Post"},
     apiKey : {"sk-req"},
     selectedKeywords : SelectedKeywordLists,
     selectedImprovements : SelectedImprovementLists]

GenerateSelectRequest(r) ==
    /\ Arrives(r)
    /\ \E b \in SelectBodies :
         /\ body' = [body EXCEPT ![r] = b]
         /\ Apply(r, GenerateOnRequest(rev, b), calls[r])
    /\ UNCHANGED <<pureVars, rev, envKey>>

NextGenerate ==
    \/ GenerateSelectRequest(1)
    \/ GenerateCompleted(1)

SpecGenerate == Init /\ [][NextGenerate]_vars

-----------------------------------------------------------------------------
(* Claims about the handlers *)

Started(r) == pc[r] # "idle"

IsEndpoint(r, e) == Started(r) /\ body[r].endpoint = e

\* a required input of the request's endpoint is absent from the body (and, for
\* the credential of analyze-seo, from the environment too)
MissingRequired(r) ==
    \/ IsEndpoint(r, "scrape") /\ body[r].url = Absent
    \/ IsEndpoint(r, "analyze")
         /\ (body[r].content = Absent \/ (body[r].apiKey = Absent /\ envKey = Absent))
    \/ IsEndpoint(r, "generate")
         /\ \/ body[r].seoData = NoString
            \/ body[r].contentTopic = Absent
            \/ body[r].generationType = Absent
            \/ body[r].apiKey = Absent

\* C1: when a required input of the endpoint is absent, the handler answers 400
\* with an error body and calls neither the fetch client nor the model client.
C1_MissingInput400 ==
    \A r \in Reqs :
        MissingRequired(r) =>
            /\ pc[r] = "done"
            /\ resp[r].status = 400
            /\ resp[r].error # Absent
            /\ calls[r] = <<>>

\* generate-content without generationType only, answered 400
C1_Witness ==
    \E r \in Reqs :
        /\ IsEndpoint(r, "generate")
        /\ body[r].seoData = FullDoc
        /\ body[r].contentTopic # Absent
        /\ body[r].apiKey # Absent
        /\ body[r].generationType = Absent
        /\ resp[r].status = 400

\* every required input of the request is there and not empty
PassedValidation(r) ==
    \/ IsEndpoint(r, "scrape") /\ body[r].url \notin {Absent, ""}
    \/ IsEndpoint(r, "analyze")
         /\ body[r].content \notin {Absent, ""}
         /\ (IF body[r].apiKey = Absent THEN envKey ELSE body[r].apiKey) \notin {Absent, ""}
    \/ IsEndpoint(r, "generate")
         /\ body[r].seoData \notin {NoString, <<>>}
         /\ body[r].contentTopic \notin {Absent, ""}
         /\ body[r].generationType \notin {Absent, ""}
         /\ body[r].apiKey \notin {Absent, ""}

\* the text the running revision hands to JSON.parse
ParsedText(r) ==
    IF rev = "index" THEN cleanJsonResponse(body[r].seoData) ELSE body[r].seoData

CallFailed(r) == \E k \in 1..Len(calls[r]) : calls[r][k].outcome = "error"

ParseFailed(r) ==
    /\ IsEndpoint(r, "generate")
    /\ PassedValidation(r)
    /\ \/ ~JsonParse(ParsedText(r)).ok
       \/ ~JsonParse(ParsedText(r)).value.seo

Count(seq, x) == Cardinality({ i \in 1..Len(seq) : seq[i] = x })

\* C2: when a stage fails after validation (the fetch, the model call, a parse
\* step), the request ends with exactly one response, a 500 with error and
\* non-empty details and no success payload, no later stage runs, the failed call
\* is not retried, and the server stays up.
C2_StageFailure500 ==
    /\ up
    /\ \A r \in Reqs :
        /\ sent[r] = (IF pc[r] = "done" THEN 1 ELSE 0)
        /\ (pc[r] = "done" /\ PassedValidation(r) /\ (CallFailed(r) \/ ParseFailed(r))) =>
              /\ resp[r].status = 500
              /\ resp[r].error # Absent
              /\ resp[r].details \notin {Absent, ""}
              /\ resp[r].payload = NoPayload
              /\ Len(calls[r]) <= 1
              /\ Count(log[r], "respond") = 1
              /\ Count(log[r], "extract") = 0
              /\ Count(log[r], "normalize") = 0
              /\ ParseFailed(r) => (calls[r] = <<>> /\ Count(log[r], "model") = 0)

\* a scrape whose fetch failed got its 500 and another request was served with 200
C2_Witness ==
    /\ IsEndpoint(1, "scrape")
    /\ pc[1] = "done"
    /\ CallFailed(1)
    /\ resp[1].status = 500
    /\ pc[2] = "done"
    /\ resp[2].status = 200

NoModelCall(r) == \A k \in 1..Len(calls[r]) : calls[r][k].client # "model"

ParseFailureResponse(r) ==
    /\ NoModelCall(r)
    /\ pc[r] = "done"
    /\ resp[r].status = 500
    /\ resp[r].details = SyntaxErrorMessage
    /\ resp[r].payload.kind # "content"

\* C3 as claimed: generate-content with every required field present and a
\* seoData string that fails JSON parsing answers 500 with the parse failure in
\* details, no content payload and no model call, in both revisions.
C3_RawParseFailure500 ==
    \A r \in Reqs :
        (IsEndpoint(r, "generate") /\ PassedValidation(r) /\ ~JsonParse(body[r].seoData).ok)
            => ParseFailureResponse(r)

\* C3 amended: the same, for a seoData string that fails JSON parsing as the
\* running revision parses it: as given in the multi-template revision, after
\* cleanJsonResponse in the earlier revision.
C3_ParseFailure500 ==
    \A r \in Reqs :
        (IsEndpoint(r, "generate") /\ PassedValidation(r) /\ ~JsonParse(ParsedText(r)).ok)
            => ParseFailureResponse(r)

\* the multi-template revision rejects a fenced document, the earlier one a text
\* that is no JSON even after cleaning
C3_Witness ==
    \E r \in Reqs :
        /\ IsEndpoint(r, "generate")
        /\ PassedValidation(r)
        /\ resp[r].status = 500
        /\ resp[r].details = SyntaxErrorMessage
        /\ \/ rev = "part" /\ body[r].seoData = FencedFullDoc
           \/ rev = "index" /\ body[r].seoData = <<"x">>

\* C10: on the analysis path the model output is cleaned and parsed as JSON
\* before success: a model text that is not valid JSON gives a 4xx/5xx failure,
\* never a success response carrying that text as analysis.
C10_AnalysisOutputParsed ==
    \A r \in Reqs :
        (/\ IsEndpoint(r, "analyze")
         /\ pc[r] = "done"
         /\ Len(calls[r]) = 1
         /\ calls[r][1].outcome = "ok"
         /\ ~JsonParse(cleanJsonResponse(calls[r][1].text)).ok)
            => (resp[r].status >= 400 /\ resp[r].payload.kind # "analysis")

\* a value that is a credential: there and not empty
Provides(v) == v \notin {Absent, ""}

ModelKeys(r) ==
    { calls[r][k].target : k \in { j \in 1..Len(calls[r]) : calls[r][j].client = "model" } }

\* C11: analyze-seo takes its credential from the body when the body supplies
\* apiKey and otherwise from the environment: a credential of the request goes to
\* the model client whatever the environment holds, the credential of the
\* environment goes there when the request has none, and a request with content
\* is rejected with 400 only when neither the body nor the environment provides
\* a credential.
C11_CredentialPrecedence ==
    \A r \in Reqs :
        (IsEndpoint(r, "analyze") /\ Provides(body[r].content)) =>
            /\ Provides(body[r].apiKey) =>
                  (resp[r].status # 400 /\ ModelKeys(r) = {body[r].apiKey})
            /\ (~Provides(body[r].apiKey) /\ Provides(envKey)) =>
                  (resp[r].status # 400 /\ ModelKeys(r) = {envKey})
            /\ (pc[r] = "done" /\ resp[r].status = 400) =>
                  (~Provides(body[r].apiKey) /\ ~Provides(envKey))

\* the place of a stage in the pipeline
StageRank(stage) ==
    CASE stage = "validate" -> 0
      [] stage = "fetch" -> 1
      [] stage = "extract" -> 2
      [] stage = "parse" -> 3
      [] stage = "prompt" -> 4
      [] stage = "model" -> 5
      [] stage = "normalize" -> 6
      [] stage = "respond" -> 7

CallsOf(r, client) == { k \in 1..Len(calls[r]) : calls[r][k].client = client }

Pending(r) == \E k \in 1..Len(calls[r]) : calls[r][k].outcome = "pending"

\* the stages of request r so far are in pipeline order, each client was invoked
\* at most once, no stage ran while a call was pending, and the response is the
\* last stage
StagesInOrder(r) ==
    /\ \A i, j \in 1..Len(log[r]) : i < j => StageRank(log[r][i]) < StageRank(log[r][j])
    /\ Cardinality(CallsOf(r, "fetch")) = Count(log[r], "fetch")
    /\ Cardinality(CallsOf(r, "model")) = Count(log[r], "model")
    /\ Cardinality(CallsOf(r, "fetch")) <= 1
    /\ Cardinality(CallsOf(r, "model")) <= 1
    /\ Pending(r) <=> pc[r] \in {"awaitFetch", "awaitModel"}
    /\ pc[r] = "awaitFetch" => log[r][Len(log[r])] = "fetch"
    /\ pc[r] = "awaitModel" => log[r][Len(log[r])] = "model"
    /\ Count(log[r], "respond") = sent[r]
    /\ pc[r] = "done" <=> (log[r] # <<>> /\ log[r][Len(log[r])] = "respond")

\* a step only adds stages to what a request did, and adds nothing once the
\* response is sent
StagesOnlyAdded(r) ==
    /\ Len(log'[r]) >= Len(log[r])
    /\ SubSeq(log'[r], 1, Len(log[r])) = log[r]
    /\ pc[r] = "done" => (log'[r] = log[r] /\ calls'[r] = calls[r] /\ resp'[r] = resp[r])

\* C12: within one request the stages run in the order fetch, extract, build
\* prompt, call model, normalize, respond; a stage starts only after the previous
\* one (and the call it awaits) has completed; the fetch client and the model
\* client are each invoked at most once; the response comes after the last stage
\* and nothing runs after it.
C12_StagesStrictlyOrdered ==
    /\ [](\A r \in Reqs : StagesInOrder(r))
    /\ [][\A r \in Reqs : StagesOnlyAdded(r)]_vars

\* a generation that went through parse, prompt, model, normalize and respond
\* next to a scrape that went through fetch, extract and respond
C12_Witness ==
    \E r, q \in Reqs :
        /\ log[r] = <<"validate", "parse", "prompt", "model", "normalize", "respond">>
        /\ log[q] = <<"validate", "fetch", "extract", "respond">>

\* the first segment of the handler of body b, run on its own
AloneOnRequest(b) ==
    CASE b.endpoint = "scrape" -> ScrapeOnRequest(b)
      [] b.endpoint = "analyze" -> AnalyzeOnRequest(b, envKey)
      [] b.endpoint = "generate" -> GenerateOnRequest(rev, b)

\* its second segment, run on its own with the answer o of its collaborator
AloneOnCompleted(b, o) ==
    CASE b.endpoint = "scrape" -> ScrapeOnFetched(o)
      [] b.endpoint = "analyze" -> AnalyzeOnCompleted(o)
      [] b.endpoint = "generate" -> GenerateOnCompleted(rev, o)

\* what request r has done is what its handler does when served alone with the
\* answers its own calls got: the same call (credential, prompt, url), the same
\* stages and the same response
AsServedAlone(r) ==
    LET first == AloneOnRequest(body[r])
    IN  IF first.kind = "respond"
        THEN /\ pc[r] = "done"
             /\ resp[r] = first.resp
             /\ log[r] = first.stages
             /\ calls[r] = <<>>
        ELSE /\ Len(calls[r]) = 1
             /\ calls[r][1].client = first.call.client
             /\ calls[r][1].target = first.call.target
             /\ calls[r][1].prompt = first.call.prompt
             /\ IF calls[r][1].outcome = "pending"
                THEN /\ pc[r] \in {"awaitFetch", "awaitModel"}
                     /\ resp[r] = NoResp
                     /\ log[r] = first.stages
                ELSE LET second == AloneOnCompleted(body[r], calls[r][1])
                     IN  /\ pc[r] = "done"
                         /\ resp[r] = second.resp
                         /\ log[r] = first.stages \o second.stages

\* C13: with several requests in flight, interleaved at their awaited calls,
\* every request's response (and call, and stages) is the one it gets when served
\* alone with the same collaborator answers; a request that has not arrived has
\* no state; the failure of one request leaves the server up for the others.
C13_ResponseAsServedAlone ==
    /\ up
    /\ \A r \in Reqs :
          IF Started(r)
          THEN AsServedAlone(r)
          ELSE resp[r] = NoResp /\ log[r] = <<>> /\ calls[r] = <<>> /\ body[r] = NoBody

\* the second request arrived while the first was awaiting its model call, ran
\* with a credential of its own and was answered 200 while the first still waits
C13_Witness ==
    /\ pc[1] = "awaitModel"
    /\ body[1].endpoint = "generate"
    /\ pc[2] = "done"
    /\ body[2].endpoint = "analyze"
    /\ calls[2] # <<>>
    /\ calls[2][1].target # calls[1][1].target
    /\ resp[2].status = 200

\* the parsed document has the SeoAnalysis structure: the analysis object with
\* its improvements list and its new-keyword-targets object with suggested keywords
HasSeoAnalysis(v) == v.seo /\ v.improvements.def /\ v.targets /\ v.keywords.def

\* C14: in generate-content, whenever seoData parses as JSON but has not the
\* SeoAnalysis structure, the model call is never made and the request ends with
\* an error response, whatever the other request fields are.
C14_ShapelessDocNoGeneration ==
    \A r \in Reqs :
        (/\ IsEndpoint(r, "generate")
         /\ PassedValidation(r)
         /\ JsonParse(ParsedText(r)).ok
         /\ ~HasSeoAnalysis(JsonParse(ParsedText(r)).value))
            => (NoModelCall(r) /\ pc[r] = "done" /\ resp[r].status >= 400)

\* the list the claim names: the caller's list when it is non-empty, the list of
\* the document otherwise (not there when the document has no such list)
ChosenList(selected, fromDoc) ==
    IF selected.def /\ Len(selected.val) > 0 THEN Some(selected.val) ELSE fromDoc

ChosenKeywords(r) ==
    ChosenList(body[r].selectedKeywords, JsonParse(body[r].seoData).value.keywords)

ChosenImprovements(r) ==
    ChosenList(body[r].selectedImprovements, JsonParse(body[r].seoData).value.improvements)

\* C15: in generate-content of the multi-template revision, the prompt given to
\* the model is the one built from the caller's selectedKeywords when that list
\* is non-empty and from the suggested keywords of the document otherwise, and
\* from the caller's selectedImprovements when non-empty and from the
\* improvements of the document otherwise, each choice made without regard to
\* the other; when a chosen list is not there no model call is made.
C15_SelectedListsOverride ==
    \A r \in Reqs :
        (/\ rev = "part"
         /\ IsEndpoint(r, "generate")
         /\ PassedValidation(r)
         /\ JsonParse(body[r].seoData).ok)
            => IF ChosenKeywords(r).def /\ ChosenImprovements(r).def
               THEN /\ Len(calls[r]) = 1
                    /\ calls[r][1].client = "model"
                    /\ calls[r][1].prompt =
                          generatePrompt(body[r].generationType, body[r].contentTopic,
                                         ChosenKeywords(r).val, ChosenImprovements(r).val)
               ELSE NoModelCall(r) /\ resp[r].status = 500

\* the caller's keywords together with the document's improvements went to the model
C15_Witness ==
    \E r \in Reqs :
        /\ rev = "part"
        /\ IsEndpoint(r, "generate")
        /\ body[r].seoData = FullDoc
        /\ body[r].selectedKeywords = Some(<<"smart home">>)
        /\ body[r].selectedImprovements = Some(<<>>)
        /\ Len(calls[r]) = 1
        /\ calls[r][1].prompt =
              generatePrompt(body[r].generationType, body[r].contentTopic,
                             <<"smart home">>, <<"add faq">>)
        /\ resp[r].status = 200

\* $("body").text().trim().replace(/\s+/g, " ") of the document
WholeBodyText(elems) == CollapseWs(Trim(BodyText(elems)))

\* C16: the whitespace-collapsed text of the whole body is used if and only if
\* no non-empty text was collected from main, section and article elements and
\* from div elements whose class contains content, main or text; when a text was
\* collected the body text is not added to the collected texts; when nothing at
\* all is collected the content is the empty string and the extraction succeeds.
C16_BodyFallbackOnlyWhenEmpty ==
    step = "extracted" =>
        IF CollectedIdx(arg) # {}
        THEN ret.texts = TextsByRank(arg)
        ELSE IF WholeBodyText(arg) # <<>>
        THEN /\ ret.texts = <<WholeBodyText(arg)>>
             /\ ret.payload.content = WholeBodyText(arg)
        ELSE /\ ret.texts = <<>>
             /\ ret.payload.content = <<>>
             /\ ret.payload.characterCount = 0

\* a page whose only texts are in two div elements without a matching class: the
\* collapsed text of the body is the content
C16_Witness ==
    /\ step = "extracted"
    /\ Len(arg) = 2
    /\ CollectedIdx(arg) = {}
    /\ ret.texts = <<WholeBodyText(arg)>>
    /\ ret.payload.content = <<"a", " ", "b", " ", "c">>

=============================================================================
